---- MODULE Spec2Model ----
(***************************************************************************)
(* Progression engine of bevy_clicker (src/src/main.rs): the Score         *)
(* resource, the Hand/Clicker entities with their TillCanClickTimer, the   *)
(* ClicksEmitted events, the per-frame systems ui_system,                  *)
(* update_timers_system and collect_score_system, and the State machine    *)
(* Welcome -> Game -> Finished.                                            *)
(*                                                                         *)
(* One frame of the Update schedule runs the systems registered for the    *)
(* current State, each once, in an order the schedule does not fix (the    *)
(* tuple in main() carries no ordering constraint), then applies the       *)
(* queued Commands, and the next frame's StateTransition applies NextState.*)
(***************************************************************************)
EXTENDS Integers, Sequences, FiniteSets, TLC

VARIABLES
    phase,          \* State<State>: "Welcome" | "Game" | "Finished"
    next_state,     \* NextState<State>: "None" or the state queued
    message_index,  \* Local<u32> of welcome_window
    score,          \* Score resource
    hands,          \* Hand entities: id -> [state, clap_timer, clickers]
    nextId,         \* next Entity id handed out by commands.spawn for a Hand
    commands,       \* Commands queued during the frame, applied at its end
    events,         \* Events<ClicksEmitted> not yet read by collect_score_system
    ran,            \* systems that have run in the current frame
    frame,          \* number of frames of State::Game completed
    issued,         \* history: number of buttons reported clicked in this frame
    accepted,       \* history: the intents ui_system acted on in this frame, in order
    ledger,         \* history: amounts ever emitted minus costs ever deducted
    probe           \* result of the last evaluation of a Score method (SpecFn)

vars == <<phase, next_state, message_index, score, hands, nextId, commands,
          events, ran, frame, issued, accepted, ledger, probe>>

(***************************************************************************)
(* Bounds of the model.                                                    *)
(***************************************************************************)
MaxFrames == 1          \* frames of State::Game explored from each initial state
MaxIntents == 2         \* buttons that report clicked() within one frame
MaxHands == 2           \* Hands alive at once before Buy Hand stops being pressed
MaxFingers == 2         \* total_fingers at which Buy Finger stops being pressed
MaxDelta == 2           \* largest Time::delta of a frame, in ticks
TimerTicks == 2         \* ticks that make up the 1.0 s of a TillCanClickTimer
MaxProbeFingers == 620  \* largest total_fingers the Score methods are probed at
MaxProbeHands == 6      \* largest total_hands the Score methods are probed at
MaxGap == 3             \* auto-fires the balance is short of WIN_SCORE when SpecLive starts

(***************************************************************************)
(* u64 values up to 10^12 do not fit TLC's 32-bit integers: stored_clicks  *)
(* and the costs compared with it are kept as <<hi, lo>> = hi * 10^6 + lo. *)
(* A subtraction that would go below zero yields Underflow (the panic of a *)
(* debug build, the wrapped value of a release build).                     *)
(***************************************************************************)
Base == 1000 * 1000

Big(n) == <<n \div Base, n % Base>>

Underflow == <<-1, 0>>

BigGeq(a, b) == a[1] > b[1] \/ (a[1] = b[1] /\ a[2] >= b[2])

BigAdd(a, b) ==
    IF a = Underflow \/ b = Underflow THEN Underflow
    ELSE <<a[1] + b[1] + ((a[2] + b[2]) \div Base), (a[2] + b[2]) % Base>>

BigSub(a, b) ==
    IF a = Underflow \/ b = Underflow \/ ~BigGeq(a, b) THEN Underflow
    ELSE IF a[2] >= b[2] THEN <<a[1] - b[1], a[2] - b[2]>>
    ELSE <<a[1] - b[1] - 1, a[2] + Base - b[2]>>

RECURSIVE Pow(_, _)
Pow(b, e) == IF e = 0 THEN 1 ELSE b * Pow(b, e - 1)

(***************************************************************************)
(* Score and its methods (main.rs 66-143).                                 *)
(***************************************************************************)
MULTIPLIER_TABLE ==
    <<40, 80, 100, 150, 200, 250, 300, 350, 375, 400, 425, 450, 470, 475,
      500, 525, 550, 575, 600>>

CASHOUT_TABLE == <<Big(10000), Big(100000000), <<50000, 0>>>>

WIN_SCORE == <<1000000, 0>>

ScoreDefault ==
    [stored_clicks |-> Big(0), total_fingers |-> 1, total_hands |-> 0, buildings |-> 1]

\* `10 * (1.04_f64).powf(n) as u64`: the cast binds tighter than the product,
\* so the power is truncated first.  1.04^n = 26^n / 25^n; the quotient is
\* exact in 32-bit arithmetic for n <= 6.
finger_cost(s) == 10 * (Pow(26, s.total_fingers) \div Pow(25, s.total_fingers))

\* mutant: every Hand costs 10
hand_cost_Flat(s) == 10

hand_cost(s) == s.total_hands * 10 + 10

combine_cost(s) == 30

auto_cost(s) == 60

RECURSIVE MultiplierLoop(_, _, _)
MultiplierLoop(s, i, m) ==
    IF i > Len(MULTIPLIER_TABLE) THEN m
    ELSE MultiplierLoop(s, i + 1,
                        IF s.total_fingers >= MULTIPLIER_TABLE[i] THEN m * 2 ELSE m)

\* mutant: the prestige bonus counts the first cycle too
multiplier_PrestigeOffByOne(s) == MultiplierLoop(s, 1, 1) * Pow(10, s.buildings)

multiplier(s) == MultiplierLoop(s, 1, 1) * Pow(10, s.buildings - 1)

RECURSIVE NextMultiplierLoop(_, _)
NextMultiplierLoop(s, i) ==
    IF i > Len(MULTIPLIER_TABLE) THEN [some |-> FALSE, value |-> 0]
    ELSE IF s.total_fingers < MULTIPLIER_TABLE[i]
         THEN [some |-> TRUE, value |-> MULTIPLIER_TABLE[i]]
         ELSE NextMultiplierLoop(s, i + 1)

next_multiplier(s) == NextMultiplierLoop(s, 1)

\* Option<u64>: [some |-> FALSE] is None.
\* mutant: past the table the last entry is charged again
cashout_cost_Wraps(s) ==
    IF s.buildings <= Len(CASHOUT_TABLE)
    THEN [some |-> TRUE, value |-> CASHOUT_TABLE[s.buildings]]
    ELSE [some |-> TRUE, value |-> CASHOUT_TABLE[Len(CASHOUT_TABLE)]]

cashout_cost(s) ==
    IF s.buildings <= Len(CASHOUT_TABLE)
    THEN [some |-> TRUE, value |-> CASHOUT_TABLE[s.buildings]]
    ELSE [some |-> FALSE, value |-> Big(0)]

(***************************************************************************)
(* Entities (main.rs 18-64) and the timer (bevy Timer, TimerMode::Once).   *)
(***************************************************************************)
TimerDefault == 0                       \* elapsed ticks; not finished

TimerFinished(t) == t >= TimerTicks

TimerReset(t) == 0

\* mutant: the elapsed time keeps growing past the duration
TimerTick_Unsaturated(t, d) == t + d

TimerTick(t, d) == IF t + d >= TimerTicks THEN TimerTicks ELSE t + d

ClickerDefault == [per_click |-> 1, till_can_click |-> TimerDefault]

HandDefault == [state |-> "Filling", clap_timer |-> TimerDefault, clickers |-> <<>>]

(***************************************************************************)
(* ui_system (main.rs 186-318).  w is the world the system works on:       *)
(* [score, hands, commands, events, nextId, accepted, ledger]; I is the    *)
(* set of buttons whose clicked() is true in this frame.                   *)
(***************************************************************************)
Intent(op, h, c) == [op |-> op, hand |-> h, clicker |-> c]

Clicked(I, op, h, c) == Intent(op, h, c) \in I

\* history only: the intent acted on, with the cost deducted / amount sent
Accept(w, op, h, c, cost, amount) ==
    [w EXCEPT !.accepted = Append(@,
        [op |-> op, hand |-> h, clicker |-> c, cost |-> cost, amount |-> amount])]

\* clicker_events.send(ClicksEmitted(amount)); kind and hand are history
Send(w, amount, kind, h) ==
    [w EXCEPT !.events = Append(@, [amount |-> amount, kind |-> kind, hand |-> h]),
              !.ledger = BigAdd(@, Big(amount))]

\* score.stored_clicks -= cost
Deduct(w, cost) ==
    [w EXCEPT !.score.stored_clicks = BigSub(@, cost),
              !.ledger = BigSub(@, cost)]

\* main.rs 202: the Buy Finger button is shown
CanBuyFinger(s) == BigGeq(s.stored_clicks, Big(finger_cost(s)))

\* mutant: Buy Finger charges and counts the finger but spawns no Clicker
BuyFinger_NoSpawn(w, h) ==
    LET cost == Big(finger_cost(w.score))
        w2 == Deduct(w, cost)
        w3 == [w2 EXCEPT !.score.total_fingers = @ + 1]
    IN  Accept(w3, "BuyFinger", h, 0, cost, 0)

\* main.rs 204-206
BuyFinger(w, h) ==
    LET cost == Big(finger_cost(w.score))
        w1 == [w EXCEPT !.commands = Append(@, [cmd |-> "SpawnClicker", id |-> h])]
        w2 == Deduct(w1, cost)
        w3 == [w2 EXCEPT !.score.total_fingers = @ + 1]
    IN  Accept(w3, "BuyFinger", h, 0, cost, 0)

\* mutant: the balance is compared with zero, not with the cost
CanCombineHand_Unchecked(s) == BigGeq(s.stored_clicks, Big(0))

\* main.rs 212
CanCombineHand(s) == BigGeq(s.stored_clicks, Big(combine_cost(s)))

\* mutant: Combine Hand puts the Hand straight into Autoed
CombineHand_ToAutoed(w, h) ==
    LET cost == Big(combine_cost(w.score))
        w1 == [w EXCEPT !.hands[h].state = "Autoed"]
        w2 == [w1 EXCEPT !.score.stored_clicks = BigSub(@, cost),
                         !.ledger = BigSub(@, cost)]
        w3 == [w2 EXCEPT !.score.total_hands = @ + 1]
    IN  [w3 EXCEPT !.accepted = Append(@,
            [op |-> "CombineHand", hand |-> h, clicker |-> 0, cost |-> cost, amount |-> 0])]

\* main.rs 214-216
CombineHand(w, h) ==
    LET cost == Big(combine_cost(w.score))
        w1 == [w EXCEPT !.hands[h].state = "Combined"]
        w2 == Deduct(w1, cost)
        w3 == [w2 EXCEPT !.score.total_hands = @ + 1]
    IN  Accept(w3, "CombineHand", h, 0, cost, 0)

\* main.rs 230
CanClick(w, h, c) == TimerFinished(w.hands[h].clickers[c].till_can_click)

\* mutant: the Click sends per_click, without the multiplier
Click_IgnoresMultiplier(w, h, c) ==
    LET amount == w.hands[h].clickers[c].per_click
        w1 == [w EXCEPT !.hands[h].clickers[c].till_can_click = TimerReset(@)]
        w2 == Send(w1, amount, "Click", h)
    IN  Accept(w2, "Click", h, c, Big(0), amount)

\* main.rs 232-233
Click(w, h, c) ==
    LET amount == w.hands[h].clickers[c].per_click * multiplier(w.score)
        w1 == [w EXCEPT !.hands[h].clickers[c].till_can_click = TimerReset(@)]
        w2 == Send(w1, amount, "Click", h)
    IN  Accept(w2, "Click", h, c, Big(0), amount)

\* main.rs 244
CanMakeAuto(s) == BigGeq(s.stored_clicks, Big(auto_cost(s)))

\* main.rs 246-247
MakeAuto(w, h) ==
    LET cost == Big(auto_cost(w.score))
        w1 == [w EXCEPT !.hands[h].state = "Autoed"]
        w2 == Deduct(w1, cost)
    IN  Accept(w2, "MakeAuto", h, 0, cost, 0)

\* main.rs 253 and 264
CanClap(w, h) == TimerFinished(w.hands[h].clap_timer)

\* main.rs 255-256
Clap(w, h) ==
    LET amount == Len(w.hands[h].clickers) * multiplier(w.score)
        w1 == [w EXCEPT !.hands[h].clap_timer = TimerReset(@)]
        w2 == Send(w1, amount, "Clap", h)
    IN  Accept(w2, "Clap", h, 0, Big(0), amount)

\* mutant: the auto-fire resets the timer and sends nothing
AutoFire_ResetOnly(w, h) == [w EXCEPT !.hands[h].clap_timer = TimerReset(@)]

\* main.rs 265-266: the Autoed arm, no button
AutoFire(w, h) ==
    LET amount == Len(w.hands[h].clickers) * multiplier(w.score)
        w1 == [w EXCEPT !.hands[h].clap_timer = TimerReset(@)]
    IN  Send(w1, amount, "Auto", h)

\* main.rs 223-238: the grid of the Clickers the Hand's Children held when
\* the frame began
RECURSIVE ClickerGrid(_, _, _, _)
ClickerGrid(w, h, c, I) ==
    IF c > Len(w.hands[h].clickers) THEN w
    ELSE ClickerGrid(IF CanClick(w, h, c) /\ Clicked(I, "Click", h, c)
                     THEN Click(w, h, c) ELSE w,
                     h, c + 1, I)

\* main.rs 200-240
FillingArm(w, h, I) ==
    LET w1 == IF CanBuyFinger(w.score) /\ Clicked(I, "BuyFinger", h, 0)
              THEN BuyFinger(w, h) ELSE w
        w2 == IF CanCombineHand(w1.score) /\ Clicked(I, "CombineHand", h, 0)
              THEN CombineHand(w1, h) ELSE w1
    IN  ClickerGrid(w2, h, 1, I)

\* main.rs 242-261
CombinedArm(w, h, I) ==
    LET w1 == IF CanMakeAuto(w.score) /\ Clicked(I, "MakeAuto", h, 0)
              THEN MakeAuto(w, h) ELSE w
    IN  IF CanClap(w1, h) /\ Clicked(I, "Clap", h, 0) THEN Clap(w1, h) ELSE w1

\* mutant: an Autoed Hand fires only when Clap is clicked
AutoedArm_NeedsClap(w, h, I) ==
    IF TimerFinished(w.hands[h].clap_timer) /\ Intent("Clap", h, 0) \in I
    THEN LET amount == Len(w.hands[h].clickers) * multiplier(w.score)
             w1 == [w EXCEPT !.hands[h].clap_timer = TimerReset(@)]
         IN  [w1 EXCEPT !.events = Append(@, [amount |-> amount, kind |-> "Auto", hand |-> h]),
                        !.ledger = BigAdd(@, Big(amount))]
    ELSE w

\* main.rs 263-271
AutoedArm(w, h, I) == IF CanClap(w, h) THEN AutoFire(w, h) ELSE w

\* mutant: every Hand window offers the buttons of a Filling Hand
HandWindow_AlwaysFilling(w, h, I) == FillingArm(w, h, I)

\* main.rs 199: `match *hand`, decided on the state the Hand has when its
\* window is built
HandWindow(w, h, I) ==
    CASE w.hands[h].state = "Filling"  -> FillingArm(w, h, I)
      [] w.hands[h].state = "Combined" -> CombinedArm(w, h, I)
      [] w.hands[h].state = "Autoed"   -> AutoedArm(w, h, I)

\* the Hands the query iterates over, in spawn order
RECURSIVE QueryOrder(_)
QueryOrder(ids) ==
    IF ids = {} THEN <<>>
    ELSE LET m == CHOOSE x \in ids : \A y \in ids : x <= y
         IN  <<m>> \o QueryOrder(ids \ {m})

\* main.rs 194-276
RECURSIVE HandWindows(_, _, _)
HandWindows(w, order, I) ==
    IF order = <<>> THEN w
    ELSE HandWindows(HandWindow(w, Head(order), I), Tail(order), I)

\* main.rs 284
CanBuyHand(s) == BigGeq(s.stored_clicks, Big(hand_cost(s)))

\* main.rs 287-289: the new Hand gets an empty Children
BuyHand(w) ==
    LET cost == Big(hand_cost(w.score))
        w1 == [w EXCEPT !.commands = Append(@, [cmd |-> "SpawnHand", id |-> w.nextId]),
                        !.nextId = @ + 1]
        w2 == Deduct(w1, cost)
        w3 == [w2 EXCEPT !.score.total_hands = @ + 1]
    IN  Accept(w3, "BuyHand", 0, 0, cost, 0)

\* mutant: Cashout is offered whenever a cashout cost exists
CanCashout_NoBalanceCheck(s) == cashout_cost(s).some

\* main.rs 294-295
CanCashout(s) ==
    cashout_cost(s).some /\ BigGeq(s.stored_clicks, cashout_cost(s).value)

\* main.rs 302-304: one despawn_recursive per Hand the query holds
RECURSIVE DespawnAll(_)
DespawnAll(order) ==
    IF order = <<>> THEN <<>>
    ELSE <<[cmd |-> "DespawnRecursive", id |-> Head(order)]>> \o DespawnAll(Tail(order))

\* main.rs 297-308
Cashout(w) ==
    LET cost == cashout_cost(w.score).value
        w1 == Deduct(w, cost)
        w2 == [w1 EXCEPT !.score.buildings = @ + 1,
                         !.score.total_fingers = 1,
                         !.score.total_hands = 0]
        w3 == [w2 EXCEPT !.commands = @ \o DespawnAll(QueryOrder(DOMAIN w.hands))
                                        \o <<[cmd |-> "SpawnHandWithClicker", id |-> w.nextId]>>,
                         !.nextId = @ + 1]
    IN  Accept(w3, "Cashout", 0, 0, cost, 0)

\* main.rs 278-316
StoreWindow(w, I) ==
    LET w1 == IF CanBuyHand(w.score) /\ Clicked(I, "BuyHand", 0, 0)
              THEN BuyHand(w) ELSE w
    IN  IF CanCashout(w1.score) /\ Clicked(I, "Cashout", 0, 0)
        THEN Cashout(w1) ELSE w1

\* main.rs 186-318
UiResult(w, I) == StoreWindow(HandWindows(w, QueryOrder(DOMAIN w.hands), I), I)

(***************************************************************************)
(* The other systems of the Update schedule and the frame.                 *)
(***************************************************************************)
\* main.rs 320-324: every TillCanClickTimer, of Hands and of Clickers alike
TickAll(hs, d) ==
    [h \in DOMAIN hs |->
        [hs[h] EXCEPT
            !.clap_timer = TimerTick(@, d),
            !.clickers = [c \in DOMAIN @ |->
                             [@[c] EXCEPT !.till_can_click = TimerTick(@, d)]]]]

\* main.rs 161-162
RECURSIVE FoldEvents(_, _)
FoldEvents(s, evs) ==
    IF evs = <<>> THEN s
    ELSE FoldEvents([s EXCEPT !.stored_clicks = BigAdd(@, Big(Head(evs).amount))],
                    Tail(evs))

\* main.rs 168
Won(s) == BigGeq(s.stored_clicks, WIN_SCORE)

\* main.rs 508-510 and 306-308
\* mutant: the Hand is spawned without its Clicker
SpawnHandWithClicker_NoClicker(hs, id) == (id :> HandDefault) @@ hs

SpawnHandWithClicker(hs, id) ==
    (id :> [HandDefault EXCEPT !.clickers = <<ClickerDefault>>]) @@ hs

\* the queued Commands, applied in the order they were queued
ApplyCommand(hs, c) ==
    CASE c.cmd = "SpawnClicker" ->
            IF c.id \in DOMAIN hs
            THEN [hs EXCEPT ![c.id].clickers = Append(@, ClickerDefault)]
            ELSE hs
      [] c.cmd = "SpawnHand" -> (c.id :> HandDefault) @@ hs
      [] c.cmd = "SpawnHandWithClicker" -> SpawnHandWithClicker(hs, c.id)
      [] c.cmd = "DespawnRecursive" -> [h \in (DOMAIN hs) \ {c.id} |-> hs[h]]

RECURSIVE ApplyCommands(_, _)
ApplyCommands(hs, cs) ==
    IF cs = <<>> THEN hs
    ELSE ApplyCommands(ApplyCommand(hs, Head(cs)), Tail(cs))

\* main.rs 580-592: the systems that run in a frame of each State
SystemsOf(p) ==
    CASE p = "Welcome"  -> {"welcome_window"}
      [] p = "Game"     -> {"ui_system", "update_timers_system", "collect_score_system"}
      [] p = "Finished" -> {"win_window"}

CanRun(sys) ==
    /\ sys \in SystemsOf(phase)
    /\ sys \notin ran
    /\ phase = "Game" => frame < MaxFrames

World ==
    [score |-> score, hands |-> hands, commands |-> commands, events |-> events,
     nextId |-> nextId, accepted |-> accepted, ledger |-> ledger]

\* the buttons a frame may report as clicked
Buttons ==
    {Intent(op, h, 0) : op \in {"CombineHand", "MakeAuto", "Clap"}, h \in DOMAIN hands}
    \cup {Intent("BuyFinger", h, 0) :
            h \in {x \in DOMAIN hands : score.total_fingers < MaxFingers}}
    \cup UNION {{Intent("Click", h, c) : c \in 1..Len(hands[h].clickers)} :
                    h \in DOMAIN hands}
    \cup {Intent("BuyHand", 0, 0) : x \in {y \in {1} : Cardinality(DOMAIN hands) < MaxHands}}
    \cup {Intent("Cashout", 0, 0)}

RECURSIVE UpTo(_, _)
UpTo(B, k) ==
    IF k = 0 THEN {{}}
    ELSE LET P == UpTo(B, k - 1) IN P \cup {S \cup {b} : S \in P, b \in B}

UiSystem ==
    /\ CanRun("ui_system")
    /\ \E I \in UpTo(Buttons, MaxIntents) :
          LET w == UiResult(World, I) IN
          /\ score' = w.score
          /\ hands' = w.hands
          /\ commands' = w.commands
          /\ events' = w.events
          /\ nextId' = w.nextId
          /\ accepted' = w.accepted
          /\ ledger' = w.ledger
          /\ issued' = Cardinality(I)
    /\ ran' = ran \cup {"ui_system"}
    /\ UNCHANGED <<phase, next_state, message_index, frame, probe>>

UpdateTimersSystem ==
    /\ CanRun("update_timers_system")
    /\ \E d \in 0..MaxDelta : hands' = TickAll(hands, d)
    /\ ran' = ran \cup {"update_timers_system"}
    /\ UNCHANGED <<phase, next_state, message_index, score, nextId, commands,
                   events, frame, issued, accepted, ledger, probe>>

\* main.rs 154-171
CollectScoreSystem ==
    /\ CanRun("collect_score_system")
    /\ score' = FoldEvents(score, events)
    /\ events' = <<>>
    /\ next_state' = IF Won(score') THEN "Finished" ELSE next_state
    /\ ran' = ran \cup {"collect_score_system"}
    /\ UNCHANGED <<phase, message_index, hands, nextId, commands, frame, issued,
                   accepted, ledger, probe>>

\* main.rs 513-558: the pages are tested one after the other in one frame
RECURSIVE WelcomePages(_, _, _)
WelcomePages(st, p, I) ==
    IF p > 5 THEN st
    ELSE WelcomePages(
            IF st.message_index = p /\ p \in I
            THEN IF p < 5 THEN [st EXCEPT !.message_index = @ + 1]
                 ELSE [st EXCEPT !.next_state = "Game"]
            ELSE st,
            p + 1, I)

WelcomeWindow ==
    /\ CanRun("welcome_window")
    /\ \E I \in UpTo(0..5, MaxIntents) :
          LET st == WelcomePages([message_index |-> message_index,
                                  next_state |-> next_state], 0, I) IN
          /\ message_index' = st.message_index
          /\ next_state' = st.next_state
          /\ issued' = Cardinality(I)
    /\ ran' = ran \cup {"welcome_window"}
    /\ UNCHANGED <<phase, score, hands, nextId, commands, events, frame,
                   accepted, ledger, probe>>

\* main.rs 560-568
WinWindow ==
    /\ CanRun("win_window")
    /\ ran' = ran \cup {"win_window"}
    /\ UNCHANGED <<phase, next_state, message_index, score, hands, nextId,
                   commands, events, frame, issued, accepted, ledger, probe>>

\* End of the Update schedule (the queued Commands are applied) and the
\* StateTransition schedule that precedes the next Update: NextState is taken
\* and OnEnter(State::Game) runs setup.
EndFrame ==
    /\ phase \in {"Welcome", "Game", "Finished"}
    /\ ran = SystemsOf(phase)
    /\ LET applied == ApplyCommands(hands, commands)
           entering == next_state # "None" /\ next_state # phase
       IN  /\ phase' = IF next_state # "None" THEN next_state ELSE phase
           /\ hands' = IF entering /\ next_state = "Game"
                       THEN SpawnHandWithClicker(applied, nextId) ELSE applied
           /\ nextId' = IF entering /\ next_state = "Game" THEN nextId + 1 ELSE nextId
    /\ next_state' = "None"
    /\ commands' = <<>>
    /\ ran' = {}
    /\ frame' = IF phase = "Game" THEN frame + 1 ELSE frame
    /\ issued' = 0
    /\ accepted' = <<>>
    /\ UNCHANGED <<message_index, score, events, ledger, probe>>

(***************************************************************************)
(* Initial states.  InitWelcome is the application as main() builds it,    *)
(* on any page of the welcome window.  InitGame starts a frame of          *)
(* State::Game from one of StartStates: states at a frame boundary that    *)
(* play reaches (each is annotated with the play that leads to it; a       *)
(* balance below WIN_SCORE is reached by Clicks on a Filling Hand before   *)
(* the purchases named).                                                   *)
(***************************************************************************)
HandOf(state, clap, clickerTimers) ==
    [state |-> state, clap_timer |-> clap,
     clickers |-> [c \in DOMAIN clickerTimers |->
                      [ClickerDefault EXCEPT !.till_can_click = clickerTimers[c]]]]

Start(b, stored, tf, th, hs, evs) ==
    [score |-> [stored_clicks |-> stored, total_fingers |-> tf,
                total_hands |-> th, buildings |-> b],
     hands |-> hs, events |-> evs]

StartStates ==
    { \* right after setup
      Start(1, Big(0), 1, 0, <<HandOf("Filling", 0, <<0>>)>>, <<>>),
      \* 100 Clicks later, a second elapsed since the last one
      Start(1, Big(100), 1, 0,
            <<HandOf("Filling", TimerTicks, <<TimerTicks>>)>>, <<>>),
      \* Buy Finger and Combine Hand done, a second ago or more
      Start(1, Big(60), 2, 1,
            <<HandOf("Combined", TimerTicks, <<TimerTicks, TimerTicks>>)>>, <<>>),
      \* after a Cashout that left 90: Combine Hand and Make Auto within the
      \* first half second of the new Hand
      Start(2, Big(0), 1, 1, <<HandOf("Autoed", 1, <<TimerTicks>>)>>, <<>>),
      \* Combine Hand and Make Auto done, the balance covers Buy Hand and Cashout
      Start(1, Big(10020), 1, 1,
            <<HandOf("Autoed", TimerTicks, <<TimerTicks>>)>>, <<>>),
      \* third cycle, the balance is the last Cashout cost
      Start(3, <<50000, 0>>, 1, 0,
            <<HandOf("Filling", TimerTicks, <<TimerTicks>>)>>, <<>>),
      \* last cycle, one Click away from WIN_SCORE
      Start(4, BigSub(WIN_SCORE, Big(1)), 1, 0,
            <<HandOf("Filling", TimerTicks, <<TimerTicks>>)>>, <<>>),
      \* the same one frame later, when ui_system sent the Click after
      \* collect_score_system had run
      Start(4, BigSub(WIN_SCORE, Big(1)), 1, 0,
            <<HandOf("Filling", TimerTicks, <<0>>)>>,
            <<[amount |-> 1000, kind |-> "Click", hand |-> 1]>>),
      \* first cycle played without any Cashout up to one Click below
      \* WIN_SCORE, that Click sent after collect_score_system had run
      Start(1, BigSub(WIN_SCORE, Big(1)), 1, 0,
            <<HandOf("Filling", TimerTicks, <<0>>)>>,
            <<[amount |-> 1, kind |-> "Click", hand |-> 1]>>),
      \* 40 Clicks, Buy Hand, then Combine Hand on the bought Hand, which
      \* has no Clicker; more than a second ago
      Start(1, Big(0), 1, 2,
            <<HandOf("Filling", TimerTicks, <<TimerTicks>>),
              HandOf("Combined", TimerTicks, <<>>)>>, <<>>) }

InitCommon ==
    /\ next_state = "None"
    /\ commands = <<>>
    /\ ran = {}
    /\ frame = 0
    /\ issued = 0
    /\ accepted = <<>>
    /\ probe = [fn |-> "none"]

InitWelcome ==
    /\ phase = "Welcome"
    /\ message_index \in 0..5
    /\ score = ScoreDefault
    /\ hands = <<>>
    /\ events = <<>>
    /\ nextId = 1
    /\ ledger = Big(0)

InitGame ==
    /\ phase = "Game"
    /\ message_index = 5
    /\ \E st \in StartStates :
          /\ score = st.score
          /\ hands = st.hands
          /\ events = st.events
          /\ ledger = FoldEvents(st.score, st.events).stored_clicks
    /\ nextId = Len(hands) + 1

Init == InitCommon /\ (InitWelcome \/ InitGame)

Next ==
    \/ WelcomeWindow
    \/ UiSystem
    \/ UpdateTimersSystem
    \/ CollectScoreSystem
    \/ WinWindow
    \/ EndFrame

Spec == Init /\ [][Next]_vars

(***************************************************************************)
(* SpecFn: the Score methods as functions of the Score alone, evaluated on *)
(* a range of Scores wider than the frames above visit.                    *)
(***************************************************************************)
\* total_fingers at which 26^n and 2 * 26^n stay within 32-bit arithmetic
ExactPow == 0..6

ProbeScores ==
    {[stored_clicks |-> Big(0), total_fingers |-> f, total_hands |-> 0, buildings |-> b] :
        f \in 0..MaxProbeFingers, b \in 1..(Len(CASHOUT_TABLE) + 1)}
    \cup {[stored_clicks |-> Big(0), total_fingers |-> 1, total_hands |-> h, buildings |-> 1] :
        h \in 0..MaxProbeHands}
    \cup {[stored_clicks |-> c, total_fingers |-> f, total_hands |-> 1, buildings |-> b] :
        c \in {CASHOUT_TABLE[i] : i \in DOMAIN CASHOUT_TABLE},
        f \in {1, 39, 40}, b \in 1..(Len(CASHOUT_TABLE) + 1)}

InitFn ==
    /\ InitCommon
    /\ phase = "Probe"
    /\ message_index = 0
    /\ score \in ProbeScores
    /\ hands = <<>>
    /\ events = <<>>
    /\ nextId = 1
    /\ ledger = score.stored_clicks

Probed(fn, value) ==
    /\ phase = "Probe"
    /\ probe.fn = "none"
    /\ probe' = [fn |-> fn, value |-> value, before |-> score]

EvalFingerCost ==
    /\ score.total_fingers \in ExactPow
    /\ Probed("finger_cost", finger_cost(score))
    /\ UNCHANGED <<phase, next_state, message_index, score, hands, nextId, commands,
                   events, ran, frame, issued, accepted, ledger>>

EvalHandCost ==
    /\ Probed("hand_cost", hand_cost(score))
    /\ UNCHANGED <<phase, next_state, message_index, score, hands, nextId, commands,
                   events, ran, frame, issued, accepted, ledger>>

EvalMultiplier ==
    /\ Probed("multiplier", multiplier(score))
    /\ UNCHANGED <<phase, next_state, message_index, score, hands, nextId, commands,
                   events, ran, frame, issued, accepted, ledger>>

EvalCashoutCost ==
    /\ Probed("cashout_cost", cashout_cost(score))
    /\ UNCHANGED <<phase, next_state, message_index, score, hands, nextId, commands,
                   events, ran, frame, issued, accepted, ledger>>

\* the Score part of an accepted Cashout (main.rs 294-300)
EvalCashout ==
    /\ CanCashout(score)
    /\ Probed("Cashout", Cashout(World).score)
    /\ score' = Cashout(World).score
    /\ UNCHANGED <<phase, next_state, message_index, hands, nextId, commands,
                   events, ran, frame, issued, accepted, ledger>>

NextFn ==
    \/ EvalFingerCost
    \/ EvalHandCost
    \/ EvalMultiplier
    \/ EvalCashoutCost
    \/ EvalCashout

SpecFn == InitFn /\ [][NextFn]_vars

(***************************************************************************)
(* SpecLive: play from a state with an Autoed Hand that owns a Clicker, in *)
(* which no spending button (Buy Finger, Buy Hand, Combine Hand, Make      *)
(* Auto, Cashout) is clicked any more and every frame advances time by a   *)
(* positive delta.  The frames are not counted (frame stays 0): the run    *)
(* goes on for as long as the application does.  The App runs the Update   *)
(* schedule frame after frame and every system of the State once per       *)
(* frame, which is the weak fairness of the steps.                         *)
(***************************************************************************)
\* the buttons that spend nothing
LiveButtons ==
    {Intent("Clap", h, 0) : h \in DOMAIN hands}
    \cup UNION {{Intent("Click", h, c) : c \in 1..Len(hands[h].clickers)} :
                    h \in DOMAIN hands}

\* main.rs 186-318
LiveUiSystem ==
    /\ CanRun("ui_system")
    /\ \E I \in UpTo(LiveButtons, MaxIntents) :
          LET w == UiResult(World, I) IN
          /\ score' = w.score
          /\ hands' = w.hands
          /\ commands' = w.commands
          /\ events' = w.events
          /\ nextId' = w.nextId
          /\ accepted' = w.accepted
          /\ ledger' = w.ledger
          /\ issued' = Cardinality(I)
    /\ ran' = ran \cup {"ui_system"}
    /\ UNCHANGED <<phase, next_state, message_index, frame, probe>>

\* main.rs 320-324, Time::delta() > 0
LiveUpdateTimersSystem ==
    /\ CanRun("update_timers_system")
    /\ \E d \in 1..MaxDelta : hands' = TickAll(hands, d)
    /\ ran' = ran \cup {"update_timers_system"}
    /\ UNCHANGED <<phase, next_state, message_index, score, nextId, commands,
                   events, frame, issued, accepted, ledger, probe>>

\* the end of the Update schedule and the next StateTransition, as EndFrame
LiveEndFrame ==
    /\ phase \in {"Game", "Finished"}
    /\ ran = SystemsOf(phase)
    /\ phase' = IF next_state # "None" THEN next_state ELSE phase
    /\ hands' = ApplyCommands(hands, commands)
    /\ next_state' = "None"
    /\ commands' = <<>>
    /\ ran' = {}
    /\ issued' = 0
    /\ accepted' = <<>>
    /\ UNCHANGED <<message_index, score, events, nextId, ledger, frame, probe>>

\* States of play with an Autoed Hand that owns a Clicker, the balance 1 to
\* MaxGap auto-fires short of WIN_SCORE: the first cycle with the one Hand
\* made Autoed (its timer anywhere in its cooldown); the last cycle with a
\* second finger bought before; the first cycle with a bought Hand given a
\* finger and made Autoed beside the Filling Hand of setup.
LiveStates ==
    {Start(1, BigSub(WIN_SCORE, Big(g)), 1, 1,
           <<HandOf("Autoed", t, <<TimerTicks>>)>>, <<>>) :
        g \in 1..MaxGap, t \in 0..TimerTicks}
    \cup {Start(4, BigSub(WIN_SCORE, Big(g * 2000)), 2, 1,
                <<HandOf("Autoed", 0, <<TimerTicks, TimerTicks>>)>>, <<>>) :
            g \in 1..MaxGap}
    \cup {Start(1, BigSub(WIN_SCORE, Big(g)), 2, 2,
                <<HandOf("Filling", TimerTicks, <<TimerTicks>>),
                  HandOf("Autoed", 0, <<TimerTicks>>)>>, <<>>) :
            g \in 1..MaxGap}

InitLive ==
    /\ InitCommon
    /\ phase = "Game"
    /\ message_index = 5
    /\ \E st \in LiveStates :
          /\ score = st.score
          /\ hands = st.hands
          /\ events = st.events
          /\ ledger = st.score.stored_clicks
    /\ nextId = Len(hands) + 1

NextLive ==
    \/ LiveUiSystem
    \/ LiveUpdateTimersSystem
    \/ CollectScoreSystem
    \/ WinWindow
    \/ LiveEndFrame

\* a step in which ui_system runs: every LiveUiSystem step is one, no other
\* step of NextLive is, and it can be taken exactly when LiveUiSystem can
UiSystemRuns == CanRun("ui_system") /\ ran' = ran \cup {"ui_system"}

SpecLive ==
    /\ InitLive
    /\ [][NextLive]_vars
    /\ WF_ran(UiSystemRuns)
    /\ WF_vars(LiveUpdateTimersSystem)
    /\ WF_vars(CollectScoreSystem)
    /\ WF_vars(LiveEndFrame)

(***************************************************************************)
(* Steps and histories the properties speak about.                         *)
(***************************************************************************)
UiStep == "ui_system" \notin ran /\ "ui_system" \in ran'

CollectStep == "collect_score_system" \notin ran /\ "collect_score_system" \in ran'

EndFrameStep == ran # {} /\ ran' = {}

Ops(log) == {log[i].op : i \in DOMAIN log}

Spends(log) ==
    SelectSeq(log, LAMBDA e :
        e.op \in {"BuyFinger", "CombineHand", "MakeAuto", "BuyHand", "Cashout"})

RECURSIVE SumCosts(_)
SumCosts(log) ==
    IF log = <<>> THEN Big(0) ELSE BigAdd(Head(log).cost, SumCosts(Tail(log)))

\* the events a step appended
NewEvents == SubSeq(events', Len(events) + 1, Len(events'))

IsFreshHand(hd) ==
    hd.state = "Filling" /\ Len(hd.clickers) = 1

(***************************************************************************)
(* C1.  In a frame in which ui_system accepts Cashout, whatever else is    *)
(* clicked in that frame: the ui_system pass raises buildings by exactly   *)
(* 1, leaves total_fingers = 1 and total_hands = 0 and takes exactly the   *)
(* accepted costs (the Cashout cost among them) from stored_clicks; and    *)
(* once the frame's Commands are applied every Hand that existed before is *)
(* gone and exactly one Hand, in Filling with exactly one Clicker, exists. *)
(***************************************************************************)
C1_CashoutResetsCycle ==
    [][ /\ (UiStep /\ "Cashout" \in Ops(accepted')) =>
            /\ score'.buildings = score.buildings + 1
            /\ score'.total_fingers = 1
            /\ score'.total_hands = 0
            /\ score'.stored_clicks =
                   BigSub(score.stored_clicks, SumCosts(Spends(accepted')))
            /\ accepted'[Len(accepted')].cost = cashout_cost(score).value
        /\ (EndFrameStep /\ "Cashout" \in Ops(accepted)) =>
            /\ score'.total_fingers = 1
            /\ score'.total_hands = 0
            /\ (DOMAIN hands') \cap (DOMAIN hands) = {}
            /\ Cardinality(DOMAIN hands') = 1
            /\ \A h \in DOMAIN hands' : IsFreshHand(hands'[h])
      ]_vars

(***************************************************************************)
(* C2.  stored_clicks never underflows: replaying the intents a ui_system  *)
(* pass accepted, in order, from the Score the pass started with, every    *)
(* spend (BuyFinger, CombineHand, MakeAuto, BuyHand, Cashout) finds        *)
(* stored_clicks >= its cost on the Score current at that point, deducts   *)
(* exactly that cost, and the replay ends in the Score the pass leaves.    *)
(***************************************************************************)
C2_CostOf(s, op) ==
    CASE op = "BuyFinger"   -> Big(finger_cost(s))
      [] op = "CombineHand" -> Big(30)
      [] op = "MakeAuto"    -> Big(60)
      [] op = "BuyHand"     -> Big(s.total_hands * 10 + 10)
      [] op = "Cashout"     -> IF s.buildings \in DOMAIN CASHOUT_TABLE
                               THEN CASHOUT_TABLE[s.buildings] ELSE Underflow
      [] OTHER              -> Big(0)

C2_After(s, op) ==
    LET paid == [s EXCEPT !.stored_clicks = BigSub(@, C2_CostOf(s, op))] IN
    CASE op = "BuyFinger"   -> [paid EXCEPT !.total_fingers = @ + 1]
      [] op = "CombineHand" -> [paid EXCEPT !.total_hands = @ + 1]
      [] op = "BuyHand"     -> [paid EXCEPT !.total_hands = @ + 1]
      [] op = "Cashout"     -> [paid EXCEPT !.buildings = @ + 1,
                                            !.total_fingers = 1,
                                            !.total_hands = 0]
      [] OTHER              -> paid

RECURSIVE C2_Replay(_, _)
C2_Replay(s, log) ==
    IF log = <<>> THEN [ok |-> TRUE, score |-> s]
    ELSE LET e == Head(log)
             cost == C2_CostOf(s, e.op)
         IN  IF cost # Underflow /\ e.cost = cost /\ BigGeq(s.stored_clicks, cost)
             THEN C2_Replay(C2_After(s, e.op), Tail(log))
             ELSE [ok |-> FALSE, score |-> s]

C2_SpendsPrevalidated ==
    [][ UiStep =>
            /\ C2_Replay(score, accepted').ok
            /\ C2_Replay(score, accepted').score = score'
            /\ score'.stored_clicks # Underflow
            /\ score'.stored_clicks[1] >= 0 /\ score'.stored_clicks[2] \in 0..(Base - 1)
      ]_vars

\* two spends were accepted in one ui_system pass
C2_Witness == Len(Spends(accepted)) >= 2

(***************************************************************************)
(* C3.  finger_cost() = floor(10 * 1.04^total_fingers) for every           *)
(* total_fingers (10 at total_fingers = 0), the amount Buy Finger checks   *)
(* and deducts.                                                            *)
(***************************************************************************)
\* floor(10 * 26^n / 25^n), written so that n = 6 stays within 32 bits
C3_Floor10Pow(n) ==
    IF n = 0 THEN 10 ELSE (2 * Pow(26, n)) \div Pow(5, 2 * n - 1)

C3_FingerCostFormula ==
    probe.fn = "finger_cost" =>
        probe.value = C3_Floor10Pow(probe.before.total_fingers)

(***************************************************************************)
(* C4.  Once collect_score_system has found stored_clicks >= WIN_SCORE     *)
(* (NextState is Finished), no intent is acted on any more, in the same    *)
(* frame or later: a ui_system pass leaves the Score and the queued        *)
(* Commands as they are and accepts nothing; and the State is Finished     *)
(* from the next frame on.                                                 *)
(***************************************************************************)
C4_FinishedRejectsIntents ==
    [][ /\ (UiStep /\ (next_state = "Finished" \/ phase = "Finished")) =>
            /\ accepted' = accepted
            /\ score' = score
            /\ commands' = commands
        /\ (EndFrameStep /\ next_state = "Finished") => phase' = "Finished"
        /\ phase = "Finished" => score' = score /\ hands' = hands /\ phase' = "Finished"
      ]_vars

(***************************************************************************)
(* C5.  Every ClicksEmitted event is folded into stored_clicks exactly     *)
(* once and none is dropped: when the State is Finished and no further     *)
(* frame folds events, no event is left unread and stored_clicks is the    *)
(* sum of the amounts emitted minus the sum of the costs deducted.         *)
(***************************************************************************)
C5_EveryEventFolded ==
    phase = "Finished" => events = <<>> /\ score.stored_clicks = ledger

(***************************************************************************)
(* C6.  Each frame runs its steps in a fixed order: the timers are         *)
(* advanced (update_timers_system), then the intents are applied and the   *)
(* Autoed Hands auto-fire (ui_system), then the events are folded and the  *)
(* win condition is evaluated (collect_score_system); so once the three    *)
(* have run no event of the frame is left unfolded.                        *)
(***************************************************************************)
C6_FixedSystemOrder ==
    /\ "ui_system" \in ran => "update_timers_system" \in ran
    /\ "collect_score_system" \in ran => "ui_system" \in ran
    /\ (phase = "Game" /\ ran = SystemsOf("Game")) => events = <<>>

(***************************************************************************)
(* C7.  A rejected action changes nothing: for every button that the       *)
(* current state rejects (a cost-gated intent with stored_clicks below its *)
(* cost, a Click or Clap whose timer is not finished, an intent that the   *)
(* Hand's state does not offer, a Cashout with no cashout cost), a         *)
(* ui_system pass in which it is clicked accepts nothing, leaves the       *)
(* Score, the queued Commands, the Hands' states and the set of entities   *)
(* as they are, and touches the timers and events exactly as the pass      *)
(* without any click does (the auto-fire of Autoed Hands).                 *)
(***************************************************************************)
C7_AllIntents ==
    {Intent(op, h, 0) :
        op \in {"BuyFinger", "CombineHand", "MakeAuto", "Clap"}, h \in DOMAIN hands}
    \cup UNION {{Intent("Click", h, c) : c \in 1..Len(hands[h].clickers)} :
                    h \in DOMAIN hands}
    \cup {Intent("BuyHand", 0, 0), Intent("Cashout", 0, 0)}

C7_Below(cost) == ~BigGeq(score.stored_clicks, cost)

C7_Rejected(i) ==
    CASE i.op = "BuyFinger" ->
            hands[i.hand].state # "Filling" \/ C7_Below(Big(finger_cost(score)))
      [] i.op = "CombineHand" ->
            hands[i.hand].state # "Filling" \/ C7_Below(Big(30))
      [] i.op = "Click" ->
            \/ hands[i.hand].state # "Filling"
            \/ hands[i.hand].clickers[i.clicker].till_can_click < TimerTicks
      [] i.op = "MakeAuto" ->
            hands[i.hand].state # "Combined" \/ C7_Below(Big(60))
      [] i.op = "Clap" ->
            hands[i.hand].state # "Combined" \/ hands[i.hand].clap_timer < TimerTicks
      [] i.op = "BuyHand" -> C7_Below(Big(score.total_hands * 10 + 10))
      [] i.op = "Cashout" ->
            \/ score.buildings \notin DOMAIN CASHOUT_TABLE
            \/ C7_Below(CASHOUT_TABLE[score.buildings])

C7_RejectedIsNoOp ==
    CanRun("ui_system") =>
        \A i \in C7_AllIntents :
            C7_Rejected(i) =>
                LET r == UiResult(World, {i})
                    idle == UiResult(World, {})
                IN  /\ r.accepted = accepted
                    /\ r.score = score
                    /\ r.commands = commands
                    /\ r.nextId = nextId
                    /\ DOMAIN r.hands = DOMAIN hands
                    /\ \A h \in DOMAIN hands :
                            /\ r.hands[h].state = hands[h].state
                            /\ hands[h].state # "Autoed" => r.hands[h] = hands[h]
                    /\ r.hands = idle.hands
                    /\ r.events = idle.events
                    /\ \A k \in (Len(events) + 1)..Len(r.events) :
                            r.events[k].kind = "Auto"

\* a frame in which buttons were clicked and ui_system accepted none
C7_Witness == "ui_system" \in ran /\ issued > 0 /\ accepted = <<>>

(***************************************************************************)
(* C8.  A Hand's state only changes Filling -> Combined, in a ui_system    *)
(* pass that accepted CombineHand for it at cost 30, and Combined ->       *)
(* Autoed, in a pass that accepted MakeAuto for it at cost 60; a pass that *)
(* accepted only that CombineHand takes 30 and adds 1 to total_hands, one  *)
(* that accepted only that MakeAuto takes 60 and leaves total_hands and    *)
(* total_fingers; a new Hand is in Filling; and a Hand disappears only     *)
(* when the Commands of a frame that accepted Cashout are applied.         *)
(***************************************************************************)
C8_Accepted(log, op, h, cost) ==
    \E i \in DOMAIN log : log[i].op = op /\ log[i].hand = h /\ log[i].cost = Big(cost)

C8_HandStateMachine ==
    [][ /\ \A h \in (DOMAIN hands) \cap (DOMAIN hands') :
            \/ hands'[h].state = hands[h].state
            \/ /\ hands[h].state = "Filling" /\ hands'[h].state = "Combined"
               /\ UiStep /\ C8_Accepted(accepted', "CombineHand", h, 30)
            \/ /\ hands[h].state = "Combined" /\ hands'[h].state = "Autoed"
               /\ UiStep /\ C8_Accepted(accepted', "MakeAuto", h, 60)
        /\ \A h \in (DOMAIN hands') \ (DOMAIN hands) : hands'[h].state = "Filling"
        /\ \A h \in (DOMAIN hands) \ (DOMAIN hands') :
            EndFrameStep /\ "Cashout" \in Ops(accepted)
        /\ (UiStep /\ Ops(accepted') = {"CombineHand"} /\ Len(accepted') = 1) =>
            /\ score'.total_hands = score.total_hands + 1
            /\ score'.total_fingers = score.total_fingers
            /\ score'.stored_clicks = BigSub(score.stored_clicks, Big(30))
        /\ (UiStep /\ Ops(accepted') = {"MakeAuto"} /\ Len(accepted') = 1) =>
            /\ score'.total_hands = score.total_hands
            /\ score'.total_fingers = score.total_fingers
            /\ score'.stored_clicks = BigSub(score.stored_clicks, Big(60))
      ]_vars

\* a Hand has just been made Autoed
C8_Witness ==
    \E i \in DOMAIN accepted :
        accepted[i].op = "MakeAuto" /\ hands[accepted[i].hand].state = "Autoed"

(***************************************************************************)
(* C9.  multiplier() = 2^k * 10^(buildings - 1), k the number of entries   *)
(* of the threshold table that are <= total_fingers; and the Score an      *)
(* accepted Cashout leaves has ten times the multiplier of the same Score  *)
(* at the buildings level before the Cashout.                              *)
(***************************************************************************)
C9_Crossed(tf) ==
    Cardinality({i \in DOMAIN MULTIPLIER_TABLE : MULTIPLIER_TABLE[i] <= tf})

C9_MultiplierFormula ==
    /\ probe.fn = "multiplier" =>
            probe.value = Pow(2, C9_Crossed(probe.before.total_fingers))
                            * Pow(10, probe.before.buildings - 1)
    /\ probe.fn = "Cashout" =>
            /\ probe.value.buildings = probe.before.buildings + 1
            /\ multiplier(probe.value) =
                 10 * multiplier([probe.value EXCEPT !.buildings = probe.before.buildings])

\* the first threshold, reached exactly, in the second cycle
C9_Witness ==
    /\ probe.fn = "multiplier"
    /\ probe.before.total_fingers = 40
    /\ probe.before.buildings = 2
    /\ probe.value = 20

(***************************************************************************)
(* C10.  In every ui_system pass, a Hand that is Autoed with a finished    *)
(* clap timer has the timer reset and exactly one event sent for it, of    *)
(* amount (number of its Clickers) * multiplier() when no button is        *)
(* clicked in the frame; an Autoed Hand whose timer is not finished has    *)
(* no event sent for it and keeps its timer.                               *)
(***************************************************************************)
C10_EventsOf(evs, h) == SelectSeq(evs, LAMBDA e : e.hand = h)

C10_AutoFire ==
    [][ UiStep =>
          \A h \in DOMAIN hands :
            hands[h].state = "Autoed" =>
                LET mine == C10_EventsOf(NewEvents, h) IN
                IF hands[h].clap_timer >= TimerTicks
                THEN /\ hands'[h].clap_timer = 0
                     /\ Len(mine) = 1
                     /\ mine[1].kind = "Auto"
                     /\ issued' = 0 =>
                            mine[1].amount = Len(hands[h].clickers) * multiplier(score)
                ELSE /\ mine = <<>>
                     /\ hands'[h].clap_timer = hands[h].clap_timer
      ]_vars

\* an auto-fire in a frame without any click
C10_Witness ==
    /\ "ui_system" \in ran
    /\ issued = 0
    /\ \E i \in DOMAIN events : events[i].kind = "Auto" /\ events[i].amount > 0

(***************************************************************************)
(* C11.  A Click on a Clicker of a Filling Hand whose timer is finished    *)
(* resets that Clicker's timer (it is no longer finished) and sends one    *)
(* event whose fold adds exactly per_click * multiplier(), evaluated on    *)
(* the Score of that moment, to stored_clicks (exactly 1 in the first      *)
(* cycle below the first multiplier threshold); the Score fields, the      *)
(* queued Commands, the Hands' states and every other timer are as the     *)
(* pass without the Click leaves them.                                     *)
(***************************************************************************)
C11_ClickRoundTrip ==
    CanRun("ui_system") =>
        \A h \in DOMAIN hands : \A c \in 1..Len(hands[h].clickers) :
            (hands[h].state = "Filling"
                /\ hands[h].clickers[c].till_can_click >= TimerTicks) =>
                LET r == UiResult(World, {Intent("Click", h, c)})
                    idle == UiResult(World, {})
                    amount == hands[h].clickers[c].per_click * multiplier(score)
                    folded == FoldEvents(r.score, r.events)
                    idleFolded == FoldEvents(idle.score, idle.events)
                IN  /\ r.hands[h].clickers[c].till_can_click < TimerTicks
                    /\ r.hands = [idle.hands EXCEPT ![h].clickers[c].till_can_click = 0]
                    /\ r.score = score
                    /\ r.commands = commands
                    /\ Len(r.events) = Len(idle.events) + 1
                    /\ \E k \in DOMAIN r.events :
                            r.events[k] = [amount |-> amount, kind |-> "Click", hand |-> h]
                    /\ folded.stored_clicks = BigAdd(idleFolded.stored_clicks, Big(amount))
                    /\ folded.total_fingers = score.total_fingers
                    /\ folded.total_hands = score.total_hands
                    /\ folded.buildings = score.buildings
                    /\ (score.buildings = 1 /\ score.total_fingers < MULTIPLIER_TABLE[1]) =>
                            folded.stored_clicks = BigAdd(idleFolded.stored_clicks, Big(1))

\* the Click of the second start state, folded: 100 + 1
C11_Witness ==
    /\ Len(accepted) = 1
    /\ accepted[1].op = "Click"
    /\ accepted[1].amount = 1
    /\ events = <<>>
    /\ "collect_score_system" \in ran
    /\ score.stored_clicks = Big(101)

(***************************************************************************)
(* C12.  Buy Hand is accepted iff stored_clicks >= total_hands * 10 + 10   *)
(* (= hand_cost()); when accepted it deducts exactly that amount, adds 1   *)
(* to total_hands and, once the Commands are applied, adds exactly one new *)
(* Hand, in Filling and without Clickers; total_fingers, buildings and     *)
(* every existing Hand and Clicker are as the pass without the click       *)
(* leaves them.  A Buy Hand that is not accepted changes nothing.          *)
(***************************************************************************)
C12_BuyHand ==
    CanRun("ui_system") =>
        LET r == UiResult(World, {Intent("BuyHand", 0, 0)})
            idle == UiResult(World, {})
            cost == Big(score.total_hands * 10 + 10)
            after == ApplyCommands(r.hands, r.commands)
            idleAfter == ApplyCommands(idle.hands, idle.commands)
        IN  /\ hand_cost(score) = score.total_hands * 10 + 10
            /\ CanBuyHand(score) <=> BigGeq(score.stored_clicks, cost)
            /\ IF BigGeq(score.stored_clicks, cost)
               THEN /\ Len(r.accepted) = 1
                    /\ r.accepted[1].op = "BuyHand"
                    /\ r.accepted[1].cost = cost
                    /\ r.score = [score EXCEPT
                                    !.stored_clicks = BigSub(@, cost),
                                    !.total_hands = @ + 1]
                    /\ r.events = idle.events
                    /\ r.hands = idle.hands
                    /\ (DOMAIN after) \ (DOMAIN idleAfter) = {nextId}
                    /\ (DOMAIN idleAfter) \ (DOMAIN after) = {}
                    /\ after[nextId].state = "Filling"
                    /\ after[nextId].clickers = <<>>
                    /\ \A h \in DOMAIN idleAfter : after[h] = idleAfter[h]
               ELSE r = idle

\* a second Hand bought at total_hands = 1, for 20
C12_Witness ==
    /\ Len(accepted) = 1
    /\ accepted[1].op = "BuyHand"
    /\ accepted[1].cost = Big(20)
    /\ score.total_hands = 2
    /\ commands = <<[cmd |-> "SpawnHand", id |-> nextId - 1]>>

(***************************************************************************)
(* C13.  buildings starts at 1 and no step lowers it; cashout_cost() is    *)
(* entry buildings - 1 (counted from 0) of (10000, 100000000, 50000000000) *)
(* while buildings <= 3 and none afterwards; a ui_system pass at           *)
(* buildings = 4 accepts no Cashout, and buildings stays within 1..4.      *)
(***************************************************************************)
C13_Table == <<Big(10000), <<100, 0>>, <<50000, 0>>>>

C13_BuildingsBounded ==
    [][ /\ phase = "Welcome" => score.buildings = 1
        /\ score'.buildings >= score.buildings
        /\ score.buildings \in 1..4 /\ score'.buildings \in 1..4
        /\ cashout_cost(score) =
              IF score.buildings <= 3
              THEN [some |-> TRUE, value |-> C13_Table[score.buildings]]
              ELSE [some |-> FALSE, value |-> Big(0)]
        /\ (UiStep /\ "Cashout" \in Ops(accepted')) =>
              /\ score.buildings <= 3
              /\ score'.buildings = score.buildings + 1
        /\ (UiStep /\ score.buildings = 4) => "Cashout" \notin Ops(accepted')
      ]_vars

\* the table is exhausted, the balance would cover any entry of it, and a
\* pass with clicked buttons accepted none
C13_Witness ==
    /\ score.buildings = 4
    /\ BigGeq(score.stored_clicks, C13_Table[3])
    /\ "ui_system" \in ran
    /\ issued > 0
    /\ accepted = <<>>

(***************************************************************************)
(* C14.  The clap timer of a Hand is inactive while the Hand is in         *)
(* Filling and Combine Hand activates it: update_timers_system leaves the  *)
(* clap timer of a Filling Hand as it is, and right after a ui_system pass *)
(* that accepted Combine Hand for a Hand its clap timer has no elapsed     *)
(* time, so that Clap and auto-fire (offered when the timer is finished)   *)
(* need a full duration after the Combine Hand.                            *)
(***************************************************************************)
C14_TimersStep ==
    "update_timers_system" \notin ran /\ "update_timers_system" \in ran'

C14_CombineActivatesClapTimer ==
    [][ /\ C14_TimersStep =>
            \A h \in DOMAIN hands :
                hands[h].state = "Filling" =>
                    hands'[h].clap_timer = hands[h].clap_timer
        /\ UiStep =>
            \A h \in DOMAIN hands :
                C8_Accepted(accepted', "CombineHand", h, 30) =>
                    /\ hands'[h].clap_timer = 0
                    /\ ~CanClap([hands |-> hands'], h)
      ]_vars

(***************************************************************************)
(* C15.  Cooldown gating.  A timer starts with no elapsed time, only       *)
(* update_timers_system advances it, by the frame's delta and never past   *)
(* the duration (it saturates), and only a firing sets it back, to zero.   *)
(* A firing (Click for a Clicker, Clap or auto-fire for a Hand) happens    *)
(* only when the elapsed time has reached the duration, at most once per   *)
(* timer in a frame whatever the delta, and leaves no elapsed time.  Hence *)
(* the deltas between the creation or last firing of a timer and its next  *)
(* firing sum to at least the duration.                                    *)
(***************************************************************************)
C15_Min(a, b) == IF a <= b THEN a ELSE b

C15_Firings(h) ==
    Len(SelectSeq(NewEvents, LAMBDA e : e.hand = h /\ e.kind \in {"Clap", "Auto"}))

C15_Clicks(log, h, c) ==
    Len(SelectSeq(log, LAMBDA e : e.op = "Click" /\ e.hand = h /\ e.clicker = c))

C15_Timer(t, t2, fired) ==
    /\ t \in 0..TimerTicks /\ t2 \in 0..TimerTicks
    /\ fired \in {0, 1}
    /\ fired = 1 => UiStep /\ t >= TimerTicks /\ t2 = 0
    /\ t2 < t => fired = 1
    /\ t2 > t => C14_TimersStep

C15_CooldownGating ==
    [][ /\ \A h \in (DOMAIN hands) \cap (DOMAIN hands') :
            /\ C15_Timer(hands[h].clap_timer, hands'[h].clap_timer,
                         IF UiStep THEN C15_Firings(h) ELSE 0)
            /\ Len(hands'[h].clickers) >= Len(hands[h].clickers)
            /\ \A c \in 1..Len(hands[h].clickers) :
                  C15_Timer(hands[h].clickers[c].till_can_click,
                            hands'[h].clickers[c].till_can_click,
                            IF UiStep THEN C15_Clicks(accepted', h, c) ELSE 0)
            /\ \A c \in (Len(hands[h].clickers) + 1)..Len(hands'[h].clickers) :
                  hands'[h].clickers[c].till_can_click = 0
        /\ \A h \in (DOMAIN hands') \ (DOMAIN hands) :
            /\ hands'[h].clap_timer = 0
            /\ \A c \in 1..Len(hands'[h].clickers) :
                  hands'[h].clickers[c].till_can_click = 0
        /\ C14_TimersStep =>
            \E d \in 0..MaxDelta :
                \A h \in DOMAIN hands :
                    /\ hands'[h].clap_timer =
                          C15_Min(hands[h].clap_timer + d, TimerTicks)
                    /\ \A c \in 1..Len(hands[h].clickers) :
                          hands'[h].clickers[c].till_can_click =
                              C15_Min(hands[h].clickers[c].till_can_click + d, TimerTicks)
      ]_vars

\* the Autoed Hand of the second cycle, half a second into its cooldown when
\* the frame began, has fired: the frame's delta completed the duration
C15_Witness ==
    /\ score.buildings = 2
    /\ "ui_system" \in ran
    /\ \E i \in DOMAIN events :
          /\ events[i].kind = "Auto"
          /\ events[i].amount = 10
          /\ hands[events[i].hand].clap_timer = 0

(***************************************************************************)
(* C16.  The State only moves Welcome -> Game -> Finished and never back;  *)
(* while it is Welcome the Score does not change and no Hand, event or     *)
(* Command exists; the step that enters Game leaves stored_clicks = 0,     *)
(* total_fingers = 1, total_hands = 0, buildings = 1 and exactly one Hand, *)
(* in Filling with exactly one Clicker; Finished is never left.            *)
(***************************************************************************)
C16_PhaseOrder ==
    [][ /\ \/ phase' = phase
           \/ phase = "Welcome" /\ phase' = "Game"
           \/ phase = "Game" /\ phase' = "Finished"
        /\ phase = "Welcome" =>
            /\ score' = score
            /\ hands = <<>> /\ events = <<>> /\ commands = <<>>
            /\ events' = <<>> /\ commands' = <<>>
            /\ phase' = "Welcome" => hands' = <<>>
        /\ (phase = "Welcome" /\ phase' = "Game") =>
            /\ score' = [stored_clicks |-> Big(0), total_fingers |-> 1,
                         total_hands |-> 0, buildings |-> 1]
            /\ Cardinality(DOMAIN hands') = 1
            /\ \A h \in DOMAIN hands' :
                  /\ hands'[h].state = "Filling"
                  /\ Len(hands'[h].clickers) = 1
        /\ phase = "Finished" => phase' = "Finished"
      ]_vars

\* Start has been clicked on the last page of the welcome window: the next
\* StateTransition enters Game
C16_Witness ==
    /\ phase = "Welcome"
    /\ next_state = "Game"
    /\ "welcome_window" \in ran

(***************************************************************************)
(* C17.  Whenever the State is Finished, stored_clicks >= WIN_SCORE; and   *)
(* from the moment collect_score_system has found the threshold reached    *)
(* (NextState is Finished) buildings, total_fingers and total_hands keep   *)
(* the values they had at that moment, whichever of ui_system and          *)
(* collect_score_system runs first in the winning frame.                   *)
(***************************************************************************)
C17_FinishedKeepsWinningScore ==
    [][ /\ phase' = "Finished" => BigGeq(score'.stored_clicks, WIN_SCORE)
        /\ (next_state = "Finished" \/ phase = "Finished") =>
            /\ score'.buildings = score.buildings
            /\ score'.total_fingers = score.total_fingers
            /\ score'.total_hands = score.total_hands
      ]_vars

(***************************************************************************)
(* C18.  At every frame boundary of State::Game (no system of the frame    *)
(* has run, the Commands of the last frame are applied), total_fingers is  *)
(* the number of Clickers over all Hands, hence at least 1.                *)
(***************************************************************************)
RECURSIVE C18_LiveClickers(_, _)
C18_LiveClickers(hs, ids) ==
    IF ids = {} THEN 0
    ELSE LET h == CHOOSE x \in ids : TRUE
         IN  Len(hs[h].clickers) + C18_LiveClickers(hs, ids \ {h})

C18_FingersCountClickers ==
    (phase = "Game" /\ ran = {}) =>
        /\ commands = <<>>
        /\ score.total_fingers = C18_LiveClickers(hands, DOMAIN hands)
        /\ score.total_fingers >= 1

\* the boundary after a frame that accepted Buy Finger and spawned the Clicker
C18_Witness ==
    /\ phase = "Game" /\ ran = {} /\ frame >= 1
    /\ score.total_fingers = 2
    /\ score.total_hands = 0
    /\ \E h \in DOMAIN hands : Len(hands[h].clickers) = 2

(***************************************************************************)
(* C19.  At every frame boundary of State::Game, total_hands = (number of  *)
(* Hands - 1) + (number of Hands in Combined or Autoed): the Hand a cycle  *)
(* starts with is not counted, each Buy Hand and each Combine Hand adds 1. *)
(***************************************************************************)
C19_HandsCount ==
    (phase = "Game" /\ ran = {}) =>
        score.total_hands =
            (Cardinality(DOMAIN hands) - 1)
            + Cardinality({h \in DOMAIN hands : hands[h].state \in {"Combined", "Autoed"}})

(***************************************************************************)
(* C20.  A ui_system pass accepts Buy Finger and Click only for a Hand     *)
(* that was in Filling when the pass began and Clap only for one that was  *)
(* in Combined.  Hence the Clickers of a Hand change only when the         *)
(* Commands of a frame are applied, by the Clickers bought for it in that  *)
(* frame, and a Hand that began the frame outside Filling has the same     *)
(* Clickers at the next frame boundary for as long as it exists; and a     *)
(* Hand outside Filling without Clickers sends amount 0 on every Clap and  *)
(* auto-fire.                                                              *)
(***************************************************************************)
C20_Bought(log, h) ==
    Len(SelectSeq(log, LAMBDA e : e.op = "BuyFinger" /\ e.hand = h))

C21_AutoFireWins == <>(phase = "Finished")

\* the win check has fired in a frame without any click, for the one
\* Autoed Hand of the first cycle
C21_Witness ==
    /\ next_state = "Finished"
    /\ "ui_system" \in ran
    /\ issued = 0
    /\ score.total_fingers = 1
    /\ \A h \in DOMAIN hands : hands[h].state = "Autoed"

====
